---- MODULE Spec2Model ----
(***************************************************************************)
(* A model of the orbital-mechanics core of orbit-simulator (globe-rs).    *)
(*                                                                         *)
(* Numbers.  The source computes over f64.  The model computes over the    *)
(* integers, on inputs for which every intermediate value of the source    *)
(* is an exact integer in the model's units:                               *)
(*   - time      one tick is half a second (a Duration has sub-second      *)
(*               resolution; `as_secs()` truncates it);                    *)
(*   - angles    one unit is a quarter turn, so 2*pi is 4 units and sine   *)
(*               and cosine are exact;                                     *)
(*   - lengths   cartesian units (kilometres under the Kilometric scale);  *)
(*   - masses    carry the gravitational parameter G * kg directly, in     *)
(*               metres cubed per tick squared, so that velocities are in  *)
(*               metres per tick and periods in ticks.                     *)
(* A float that is NaN or infinite reaches the argument of                 *)
(* Duration::from_secs_f64, which panics on it (the model returns Panic),  *)
(* or the foci that Ellipse::new builds for an eccentricity above one,     *)
(* which hold NaN.                                                         *)
(***************************************************************************)
EXTENDS Integers, Sequences, FiniteSets, TLC

VARIABLES system, derived, found, shape, call, ret

vars == <<system, derived, found, shape, call, ret>>

----------------------------------------------------------------------------
(* Results of operations that may panic.                                   *)

Ok(v) == [ok |-> TRUE, val |-> v]

Panic == [ok |-> FALSE]

None == [some |-> FALSE]

Some(v) == [some |-> TRUE, val |-> v]

----------------------------------------------------------------------------
(* Bounds of the model.                                                    *)

MaxNodes == 3

MaxTime == 3

MaxSegments == 4

----------------------------------------------------------------------------
(* Arithmetic helpers.                                                     *)

Abs(x) == IF x < 0 THEN -x ELSE x

\* The remainder of Rust's `%` on f64 for a non-zero divisor: it has the sign
\* of the dividend.
Rem(a, b) == IF a < 0 THEN -((-a) % Abs(b)) ELSE a % Abs(b)

RECURSIVE IsqrtBetween(_, _, _)
\* The largest r in lo..hi with r * r <= n, by bisection.
IsqrtBetween(n, lo, hi) ==
    IF lo = hi
    THEN lo
    ELSE LET mid == (lo + hi + 1) \div 2
         IN  IF mid * mid <= n
             THEN IsqrtBetween(n, mid, hi)
             ELSE IsqrtBetween(n, lo, mid - 1)

\* f64::sqrt of a non-negative number, truncated; exact on squares.
Isqrt(n) ==
    IF n <= 1 THEN n ELSE IsqrtBetween(n, 1, IF n < 65536 THEN 255 ELSE 46340)

\* The sub-second positions of a tick within a second.
SubSecond == {0, 1}

TicksPerSec == Cardinality(SubSecond)

\* Duration::as_secs: the whole seconds of a duration.
AsSecs(ticks) == ticks \div TicksPerSec

METERS_PER_KM == 1000

\* Scale::distance(value).as_meters() for the Kilometric scale.
AsMeters(value) == Abs(value) * METERS_PER_KM

----------------------------------------------------------------------------
(* Radian.                                                                 *)

TWO_PI == 4

RadianFromHalfOpen(value) ==
    IF 0 <= value /\ value < TWO_PI
    THEN value
    ELSE LET modulus == Rem(value, TWO_PI)
         IN  IF value < 0 THEN Rem(modulus + TWO_PI, TWO_PI) ELSE modulus

RadianFromSigned(value) ==
    IF 0 <= value /\ value <= TWO_PI
    THEN value
    ELSE Rem(value, TWO_PI)

RadianFromMirrored(value) ==
    IF 0 <= value /\ value <= TWO_PI
    THEN value
    ELSE Abs(Rem(value, TWO_PI))

\* impl From<f64> for Radian
RadianFrom(value) ==
    IF 0 <= value /\ value <= TWO_PI
    THEN value
    ELSE LET modulus == Rem(value, TWO_PI)
         IN  IF value < 0 THEN Rem(modulus + TWO_PI, TWO_PI) ELSE modulus

\* Radian::is_full
IsFull(radian) == radian = TWO_PI

\* impl From<Duration> for Radian: the radians per second of a period.
\* The period is not zero.
RadianFromDuration(period) == RadianFrom((TWO_PI * TicksPerSec) \div period)

\* f64::sin and f64::cos on whole quarter turns.
Sin(theta) ==
    CASE theta % 4 = 0 -> 0
      [] theta % 4 = 1 -> 1
      [] theta % 4 = 2 -> 0
      [] theta % 4 = 3 -> -1

Cos(theta) ==
    CASE theta % 4 = 0 -> 1
      [] theta % 4 = 1 -> 0
      [] theta % 4 = 2 -> -1
      [] theta % 4 = 3 -> 0

----------------------------------------------------------------------------
(* Cartesian coordinates and transforms.                                   *)

Coords(x, y, z) == <<x, y, z>>

CoordsDefault == <<0, 0, 0>>

CoordsNeg(c) == <<-c[1], -c[2], -c[3]>>

\* Coords::distance, exact when the points differ along one axis.
Distance(a, b) ==
    Isqrt((a[1] - b[1]) * (a[1] - b[1]) + (a[2] - b[2]) * (a[2] - b[2])
          + (a[3] - b[3]) * (a[3] - b[3]))

\* Coords::unit, for a vector along one axis.
Unit(c) ==
    LET m == Distance(c, CoordsDefault)
    IN  <<c[1] \div m, c[2] \div m, c[3] \div m>>

Translation(vector) == [vector |-> vector]

\* impl Neg for Translation
TranslationNeg(t) == [vector |-> CoordsNeg(t.vector)]

\* impl Transform for Translation
Translate(t, point) ==
    <<point[1] + t.vector[1], point[2] + t.vector[2], point[3] + t.vector[3]>>

\* Rotation::default().with_axis(axis).with_theta(theta)
Rotation(axis, theta) == [axis |-> Unit(axis), theta |-> theta]

RotationNegKeepsTheta(r) == [axis |-> r.axis, theta |-> r.theta]

\* impl Neg for Rotation
RotationNeg(r) == [axis |-> r.axis, theta |-> RadianFrom(-r.theta)]

RotateLeftHanded(r, point) ==
    LET s == -Sin(r.theta)
        c == Cos(r.theta)
        k == 1 - c
        x == r.axis[1]
        y == r.axis[2]
        z == r.axis[3]
    IN  << (c + x * x * k) * point[1] + (x * y * k - z * s) * point[2]
              + (x * z * k + y * s) * point[3],
           (y * x * k + z * s) * point[1] + (c + y * y * k) * point[2]
              + (y * z * k - x * s) * point[3],
           (z * x * k - y * s) * point[1] + (z * y * k + x * s) * point[2]
              + (c + z * z * k) * point[3] >>

\* impl Transform for Rotation: the Rodrigues matrix times the point.
Rotate(r, point) ==
    LET s == Sin(r.theta)
        c == Cos(r.theta)
        k == 1 - c
        x == r.axis[1]
        y == r.axis[2]
        z == r.axis[3]
    IN  << (c + x * x * k) * point[1] + (x * y * k - z * s) * point[2]
              + (x * z * k + y * s) * point[3],
           (y * x * k + z * s) * point[1] + (c + y * y * k) * point[2]
              + (y * z * k - x * s) * point[3],
           (z * x * k - y * s) * point[1] + (z * y * k + x * s) * point[2]
              + (c + z * z * k) * point[3] >>

----------------------------------------------------------------------------
(* Bodies.                                                                 *)

\* Body { name, radius, spin: Rotation { period, clockwise }, mass,
\* luminosity }.  `mass` holds G * kg.
Body(name, radius, period, mass, luminosity) ==
    [name |-> name, radius |-> radius,
     spin |-> [period |-> period, clockwise |-> FALSE],
     mass |-> mass, luminosity |-> luminosity]

\* Body::gravitational_parameter
GravitationalParameter(body) == body.mass

----------------------------------------------------------------------------
(* Arc: a portion of a circle, and the circular orbit along it.            *)

Arc(center, start, axis, theta) ==
    [center |-> center, start |-> start, axis |-> axis, theta |-> theta]

\* Arc::radius
ArcRadius(arc) == Distance(arc.center, arc.start)

\* Arc::perimeter
ArcPerimeter(arc) == ArcRadius(arc) * TWO_PI

\* Arc::velocity for an arc of non-zero radius: sqrt(G * mass / radius).
ArcVelocity(arc, body) ==
    Isqrt(GravitationalParameter(body) \div AsMeters(ArcRadius(arc)))

\* Arc::period: perimeter / velocity, through Duration::from_secs_f64.
\* With no mass the velocity is 0 (or NaN for a zero radius) and the quotient
\* is infinite (or NaN): from_secs_f64 panics.  With a zero radius and some
\* mass the velocity is infinite and the quotient is 0.
ArcPeriod(arc, body) ==
    IF GravitationalParameter(body) = 0
    THEN Panic
    ELSE IF ArcRadius(arc) = 0
         THEN Ok(0)
         ELSE Ok(AsMeters(ArcPerimeter(arc)) \div ArcVelocity(arc, body))

\* Arc::orbit.  `time % period` is NaN for a zero period, and from_secs_f64
\* panics on it.
ArcOrbit(arc, time, body) ==
    LET period == ArcPeriod(arc, body)
    IN  IF ~period.ok
        THEN Panic
        ELSE IF period.val = 0
             THEN Panic
             ELSE LET t == Rem(time, period.val)
                      translation == Translation(arc.center)
                      theta == (TWO_PI * t) \div period.val
                      rotation == Rotation(arc.axis, RadianFrom(theta))
                  IN  Ok(Translate(TranslationNeg(translation),
                             Rotate(rotation,
                                 Translate(TranslationNeg(translation),
                                           arc.start))))

\* Arc::end
ArcEnd(arc) ==
    LET translation == Translation(CoordsNeg(arc.center))
        rotation == Rotation(arc.axis, arc.theta)
    IN  Translate(TranslationNeg(translation),
            Rotate(rotation, Translate(translation, arc.start)))

RECURSIVE ArcSampleFrom(_, _, _, _, _)
\* The loop that turns each point about the origin, whatever the centre.
ArcSampleFromAboutOrigin(points, index, segments, translation, rotation) ==
    IF index >= segments
    THEN points
    ELSE ArcSampleFrom(Append(points, Rotate(rotation, points[index])),
                       index + 1, segments, translation, rotation)

\* The loop of Arc::sample: `for index in 1..segments`.
ArcSampleFrom(points, index, segments, translation, rotation) ==
    IF index >= segments
    THEN points
    ELSE ArcSampleFrom(
             Append(points,
                 Translate(translation,
                     Rotate(rotation,
                         Translate(TranslationNeg(translation),
                                   points[index])))),
             index + 1, segments, translation, rotation)

\* sample that closes the loop with one more point.
ArcSampleClosed(arc, segments) ==
    LET theta == RadianFrom(arc.theta \div segments)
        translation == Translation(arc.center)
        rotation == Rotation(arc.axis, theta)
    IN  ArcSampleFrom(<<arc.start>>, 1, segments + 1, translation, rotation)

\* Arc::sample, for segments > 0 that divide the arc's angle into whole
\* angle units.  points[index] above is the source's points[index - 1].
ArcSample(arc, segments) ==
    LET theta == RadianFrom(arc.theta \div segments)
        translation == Translation(arc.center)
        rotation == Rotation(arc.axis, theta)
    IN  ArcSampleFrom(<<arc.start>>, 1, segments, translation, rotation)

----------------------------------------------------------------------------
(* Ellipse.  The ellipses of the model have their foci on one coordinate   *)
(* axis and their start point on that axis or at a right angle to it.      *)

Ellipse(start, f1, f2, theta) ==
    [start |-> start, foci |-> <<f1, f2>>, theta |-> theta]

\* Transform::transform for the two transforms in use.
Transform(t, point) ==
    IF "vector" \in DOMAIN t THEN Translate(t, point) ELSE Rotate(t, point)

\* f64::atan2(y, x) where x or y is zero.
Atan2(y, x) ==
    CASE y = 0 /\ x >= 0 -> 0
      [] y = 0 /\ x < 0 -> 2
      [] y > 0 /\ x = 0 -> 1
      [] y < 0 /\ x = 0 -> -1

\* Ellipse::semi_major_axis
EllipseSemiMajorAxis(e) ==
    (Distance(e.start, e.foci[1]) + Distance(e.start, e.foci[2])) \div 2

\* Ellipse::semi_minor_axis
EllipseSemiMinorAxis(e) ==
    Isqrt(Distance(e.start, e.foci[1]) * Distance(e.start, e.foci[2]))

\* Ellipse::linear_eccentricity
EllipseLinearEccentricity(e) ==
    Isqrt(EllipseSemiMajorAxis(e) * EllipseSemiMajorAxis(e)
          - EllipseSemiMinorAxis(e) * EllipseSemiMinorAxis(e))

\* Ellipse::eccentricity, sqrt(1 - b^2 / a^2), as the fraction
\* sqrt(a^2 - b^2) / a of a numerator and a denominator.
EllipseEccentricity(e) ==
    <<Isqrt(EllipseSemiMajorAxis(e) * EllipseSemiMajorAxis(e)
            - EllipseSemiMinorAxis(e) * EllipseSemiMinorAxis(e)),
      EllipseSemiMajorAxis(e)>>

\* Ellipse::center
EllipseCenter(e) ==
    << (e.foci[1][1] + e.foci[2][1]) \div 2,
       (e.foci[1][2] + e.foci[2][2]) \div 2,
       (e.foci[1][3] + e.foci[2][3]) \div 2 >>

\* f64::NAN
NaN == "NaN"

\* Ellipse::new.  The eccentricity is the fraction eccentricity[1] /
\* eccentricity[2], so that 1 - e^2 is (den^2 - num^2) / den^2; its square
\* root is NaN when e > 1, and so are the foci computed from it.
EllipseNew(semi_major_axis, eccentricity) ==
    LET num == eccentricity[1]
        den == eccentricity[2]
        isNaN == den * den - num * num < 0
        semi_minor_axis ==
            IF isNaN THEN NaN
            ELSE (semi_major_axis * Isqrt(den * den - num * num)) \div den
        linear_eccentricity ==
            IF isNaN THEN NaN
            ELSE Isqrt(semi_major_axis * semi_major_axis
                           - semi_minor_axis * semi_minor_axis)
    IN  [start |-> Coords(semi_major_axis, 0, 0),
         foci |-> <<Coords(IF isNaN THEN NaN ELSE -linear_eccentricity, 0, 0),
                    Coords(linear_eccentricity, 0, 0)>>,
         theta |-> TWO_PI]

\* Ellipse::transform
EllipseTransform(e, t) ==
    [start |-> Transform(t, e.start),
     foci |-> <<Transform(t, e.foci[1]), Transform(t, e.foci[2])>>,
     theta |-> e.theta]

\* The right focus seen from the centre, as theta_z, theta_y and theta_x
\* compute it.
EllipseRightFocus(e) ==
    Translate(TranslationNeg(Translation(EllipseCenter(e))), e.foci[2])

\* Ellipse::theta_z
EllipseThetaZ(e) ==
    RadianFrom(Atan2(EllipseRightFocus(e)[2], EllipseRightFocus(e)[1]))

\* Ellipse::theta_y
EllipseThetaY(e) ==
    RadianFrom(Atan2(EllipseRightFocus(e)[3], EllipseRightFocus(e)[1]))

\* Ellipse::theta_x.  The start point is on the axis of the foci (the angle
\* is 0 or pi and nothing is projected out) or at a right angle to it (the
\* projection is the zero vector): it is left as it is either way.
EllipseThetaX(e) ==
    LET start == Translate(TranslationNeg(Translation(EllipseCenter(e))),
                           e.start)
    IN  RadianFrom(Atan2(start[3], start[2]))

\* The element of a set of one element.
TheOnly(set) == CHOOSE x \in set : TRUE

\* let translation = ...; let mut ellipse = self.transform(-translation);
EllipseCentred(e) ==
    [ellipse |-> EllipseTransform(e,
                     TranslationNeg(Translation(EllipseCenter(e)))),
     translation |-> Translation(EllipseCenter(e))]

\* let rotation_z = ...; ellipse = ellipse.transform(-rotation_z);
EllipseTurnedZ(f) ==
    [ellipse |-> EllipseTransform(f.ellipse,
                     RotationNeg(Rotation(Coords(0, 0, 1),
                                          EllipseThetaZ(f.ellipse)))),
     translation |-> f.translation,
     rotationZ |-> Rotation(Coords(0, 0, 1), EllipseThetaZ(f.ellipse))]

\* let rotation_y = ...; ellipse = ellipse.transform(-rotation_y);
EllipseTurnedY(f) ==
    [ellipse |-> EllipseTransform(f.ellipse,
                     RotationNeg(Rotation(Coords(0, 1, 0),
                                          EllipseThetaY(f.ellipse)))),
     translation |-> f.translation,
     rotationZ |-> f.rotationZ,
     rotationY |-> Rotation(Coords(0, 1, 0), EllipseThetaY(f.ellipse))]

\* let rotation_x = ...; ellipse = ellipse.transform(-rotation_x);
EllipseTurnedX(f) ==
    [ellipse |-> EllipseTransform(f.ellipse,
                     RotationNeg(Rotation(Coords(1, 0, 0),
                                          EllipseThetaX(f.ellipse)))),
     translation |-> f.translation,
     rotationZ |-> f.rotationZ,
     rotationY |-> f.rotationY,
     rotationX |-> Rotation(Coords(1, 0, 0), EllipseThetaX(f.ellipse))]

\* The frame of Ellipse::sample and Ellipse::orbit: the ellipse moved to the
\* origin and turned onto the x axis, with the transforms that did it, each
\* step made on the outcome of the step before.
EllipseFrame(e) ==
    TheOnly({EllipseTurnedX(f2) :
                 f2 \in {EllipseTurnedY(f1) :
                             f1 \in {EllipseTurnedZ(f0) :
                                         f0 \in {EllipseCentred(e)}}}})

\* The closure that maps a point of the frame back: rotation_x, rotation_y,
\* rotation_z, translation.
EllipseUnframe(frame, point) ==
    Transform(frame.translation,
        Transform(frame.rotationZ,
            Transform(frame.rotationY,
                Transform(frame.rotationX, point))))

\* Ellipse::sample, for segments > 0 that divide the ellipse's angle into
\* whole angle units.
EllipseSample(e, segments) ==
    LET frame == EllipseFrame(e)
        initialTheta == Atan2(frame.ellipse.start[2], frame.ellipse.start[1])
        a == EllipseSemiMajorAxis(frame.ellipse)
        b == EllipseSemiMinorAxis(frame.ellipse)
    IN  [index \in 1..segments |->
            LET theta == initialTheta + (e.theta * (index - 1)) \div segments
            IN  EllipseUnframe(frame,
                               Coords(a * Cos(theta), b * Sin(theta), 0))]

\* Ellipse::perimeter, the Ramanujan II-Cantrell formula with
\* h = ((a - b) / (a + b))^2 = n / d:
\*     pi (a + b) (1 + 3 h / (10 + sqrt(4 - 3 h)) + (4 / pi - 14 / 11) h^12).
\* The last term is less than a thousandth of the first and is left out.
EllipsePerimeter(e) ==
    LET a == EllipseSemiMajorAxis(e)
        b == EllipseSemiMinorAxis(e)
        n == (a - b) * (a - b)
        d == (a + b) * (a + b)
        half == (TWO_PI \div 2) * (a + b)
    IN  IF d = 0
        THEN 0
        ELSE half + (half * 3 * n) \div (10 * d + Isqrt(4 * d * d - 3 * n * d))

\* velocity with r measured from the centre of the ellipse.
EllipseVelocityFromCenter(e, body) ==
    LET radius == AsMeters(Distance(e.start, EllipseCenter(e)))
        a == AsMeters(EllipseSemiMajorAxis(e))
    IN  IF 2 * a = radius
        THEN 0
        ELSE Isqrt((2 * GravitationalParameter(body))
                       \div ((2 * a * radius) \div (2 * a - radius)))

\* Ellipse::velocity: sqrt(2 G mass (1 / r - 1 / (2 a))) with r the distance
\* from the start point to foci[0] and a the semi-major axis, both in metres.
\* The difference of the reciprocals is (2 a - r) / (2 a r); r is not zero.
EllipseVelocity(e, body) ==
    LET radius == AsMeters(Distance(e.start, e.foci[1]))
        a == AsMeters(EllipseSemiMajorAxis(e))
    IN  IF 2 * a = radius
        THEN 0
        ELSE Isqrt((2 * GravitationalParameter(body))
                       \div ((2 * a * radius) \div (2 * a - radius)))

\* Ellipse::period: (2 pi / sqrt(G mass)) * a^(3/2), with the semi-major axis
\* as stored, through Duration::from_secs_f64.  With no mass the quotient is
\* infinite and from_secs_f64 panics.
EllipsePeriod(e, body) ==
    IF GravitationalParameter(body) = 0
    THEN Panic
    ELSE LET a == EllipseSemiMajorAxis(e)
         IN  Ok((TWO_PI * Isqrt(a * a * a))
                    \div Isqrt(GravitationalParameter(body)))

\* orbit without the reduction of the time modulo the period.
EllipseOrbitUnreduced(e, time, body) ==
    LET period == EllipsePeriod(e, body)
    IN  IF ~period.ok
        THEN Panic
        ELSE IF period.val = 0
             THEN Panic
             ELSE Ok([curve |-> e,
                      orbitee |-> GravitationalParameter(body),
                      elapsed |-> time])

\* Ellipse::orbit.  The time is reduced modulo the period (NaN, and a panic of
\* from_secs_f64, for a zero period).  The point returned, when the walk along
\* the curve returns one, is then a function of the ellipse, the orbited body
\* and the reduced time alone; the walk is not computed here: the point is
\* the term naming the three.  The walk itself is stepped through below, in
\* OrbitEnter, OrbitLoop and OrbitReturn.
EllipseOrbit(e, time, body) ==
    LET period == EllipsePeriod(e, body)
    IN  IF ~period.ok
        THEN Panic
        ELSE IF period.val = 0
             THEN Panic
             ELSE Ok([curve |-> e,
                      orbitee |-> GravitationalParameter(body),
                      elapsed |-> Rem(time, period.val)])

----------------------------------------------------------------------------
(* The orbit of a system: the `Orbit` capability of the type parameter O.  *)
(* The orbits of the model are circular: an Arc, together with the offset  *)
(* `focus` of the orbited body from the orbit's centre.                    *)

Orbit(center, start, axis, focus) ==
    [center |-> center, start |-> start, axis |-> axis, theta |-> TWO_PI,
     focus |-> focus]

\* Orbit::position_at
OrbitPositionAt(orbit, time, orbitee) == ArcOrbit(orbit, time, orbitee)

\* Orbit::theta_at: the angle of the orbit travelled at `time`.
OrbitThetaAt(orbit, time, orbitee) ==
    LET period == ArcPeriod(orbit, orbitee).val
    IN  RadianFrom((TWO_PI * Rem(time, period)) \div period)

\* Orbit::velocity_at
OrbitVelocityAt(orbit, time, orbitee) == ArcVelocity(orbit, orbitee)

\* Orbit::min_velocity
OrbitMinVelocity(orbit, orbitee) == ArcVelocity(orbit, orbitee)

\* Orbit::max_velocity
OrbitMaxVelocity(orbit, orbitee) == ArcVelocity(orbit, orbitee)

\* Orbit::period
OrbitPeriod(orbit, orbitee) == ArcPeriod(orbit, orbitee)

\* Orbit::perimeter
OrbitPerimeter(orbit) == ArcPerimeter(orbit)

\* Orbit::radius
OrbitRadius(orbit) == ArcRadius(orbit)

\* Orbit::focus
OrbitFocus(orbit) == orbit.focus

----------------------------------------------------------------------------
(* OrbitalSystem and its state at a moment in time.                        *)

\* OrbitalSystem { primary, orbit, secondary }
OrbitalSystem(primary, orbit, secondary) ==
    [primary |-> primary, orbit |-> orbit, secondary |-> secondary]

\* BodyPosition { body, position }
BodyPosition(body, position) == [body |-> body, position |-> position]

\* OrbitalSystemState::spin_at.  `time % period` is NaN for a zero period,
\* and Duration::from_secs_f64 panics on it.
SpinAt(time, body) ==
    IF body.spin.period = 0
    THEN Panic
    ELSE LET t == Rem(time, body.spin.period)
         IN  Ok(RadianFrom(RadianFromDuration(body.spin.period) * AsSecs(t)))

\* position_at without the translation by the parent's position.
PositionAtNoParent(time, sys, parent) ==
    IF ~(parent.some /\ sys.orbit.some)
    THEN Ok(CoordsDefault)
    ELSE LET orbit == sys.orbit.val
             position == OrbitPositionAt(orbit, time, parent.val.body)
         IN  IF ~position.ok
             THEN Panic
             ELSE Ok(Translate(Translation(OrbitFocus(orbit)), position.val))

\* position_at that places a system with an orbit and no parent at the start
\* of its orbit.
PositionAtOrbitAlone(time, sys, parent) ==
    IF ~sys.orbit.some
    THEN Ok(CoordsDefault)
    ELSE IF ~parent.some
         THEN Ok(sys.orbit.val.start)
         ELSE LET orbit == sys.orbit.val
                  position == OrbitPositionAt(orbit, time, parent.val.body)
              IN  IF ~position.ok
                  THEN Panic
                  ELSE Ok(Translate(Translation(OrbitFocus(orbit)),
                              Translate(Translation(parent.val.position),
                                        position.val)))

\* OrbitalSystemState::position_at
PositionAt(time, sys, parent) ==
    IF ~(parent.some /\ sys.orbit.some)
    THEN Ok(CoordsDefault)
    ELSE LET orbit == sys.orbit.val
             position == OrbitPositionAt(orbit, time, parent.val.body)
         IN  IF ~position.ok
             THEN Panic
             ELSE Ok(Translate(Translation(OrbitFocus(orbit)),
                         Translate(Translation(parent.val.position),
                                   position.val)))

\* OrbitalSystemState::theta_at
ThetaAt(time, sys, parent) ==
    IF ~(parent.some /\ sys.orbit.some)
    THEN 0
    ELSE OrbitThetaAt(sys.orbit.val, time, parent.val.body)

\* OrbitalSystemState::velocity_at
VelocityAt(time, sys, parent) ==
    IF ~(parent.some /\ sys.orbit.some)
    THEN 0
    ELSE OrbitVelocityAt(sys.orbit.val, time, parent.val.body)

RECURSIVE At(_, _, _), AtEach(_, _, _, _)
\* OrbitalSystemState::at.  The fields are evaluated in the order written, so
\* theta and velocity are only computed once the position is.
At(time, sys, parent) ==
    LET rotation == SpinAt(time, sys.primary)
        position == PositionAt(time, sys, parent)
    IN  IF ~rotation.ok \/ ~position.ok
        THEN Panic
        ELSE LET secondary ==
                     AtEach(time, sys.secondary,
                            Some(BodyPosition(sys.primary, position.val)), 1)
             IN  IF ~secondary.ok
                 THEN Panic
                 ELSE Ok([body |-> sys.primary.name,
                          rotation |-> rotation.val,
                          position |-> position.val,
                          theta |-> ThetaAt(time, sys, parent),
                          velocity |-> VelocityAt(time, sys, parent),
                          secondary |-> secondary.val])

\* The map over the children in which each child is placed around the
\* position of the child before it.
AtEachChained(time, systems, parent, index) ==
    IF index > Len(systems)
    THEN Ok(<<>>)
    ELSE LET head == At(time, systems[index], parent)
         IN  IF ~head.ok
             THEN Panic
             ELSE LET tail == AtEach(time, systems,
                                     Some(BodyPosition(parent.val.body,
                                                       head.val.position)),
                                     index + 1)
                  IN  IF ~tail.ok
                      THEN Panic
                      ELSE Ok(<<head.val>> \o tail.val)

\* The map over the children that collects them last to first.
AtEachReversed(time, systems, parent, index) ==
    IF index > Len(systems)
    THEN Ok(<<>>)
    ELSE LET head == At(time, systems[index], parent)
         IN  IF ~head.ok
             THEN Panic
             ELSE LET tail == AtEach(time, systems, parent, index + 1)
                  IN  IF ~tail.ok
                      THEN Panic
                      ELSE Ok(tail.val \o <<head.val>>)

\* system.secondary.iter().map(|system| Self::at(time, system, Some(parent)))
\* from the index-th system on.
AtEach(time, systems, parent, index) ==
    IF index > Len(systems)
    THEN Ok(<<>>)
    ELSE LET head == At(time, systems[index], parent)
         IN  IF ~head.ok
             THEN Panic
             ELSE LET tail == AtEach(time, systems, parent, index + 1)
                  IN  IF ~tail.ok
                      THEN Panic
                      ELSE Ok(<<head.val>> \o tail.val)

\* OrbitalSystem::state_at
StateAtOf(sys, time) == At(time, sys, None)

RECURSIVE State(_, _), StateFindMap(_, _, _)
\* OrbitalSystemState::state.  A reference into the tree is the path of child
\* indices that leads to it.
State(state, name) ==
    IF state.body = name
    THEN Some(<<>>)
    ELSE StateFindMap(state.secondary, name, 1)

\* find_map that prefers the later children.
StateFindMapLast(states, name, index) ==
    IF index > Len(states)
    THEN None
    ELSE LET later == StateFindMap(states, name, index + 1)
             hit == State(states[index], name)
         IN  IF later.some
             THEN later
             ELSE IF hit.some THEN Some(<<index>> \o hit.val) ELSE None

\* self.secondary.iter().find_map(|state| state.state(name))
StateFindMap(states, name, index) ==
    IF index > Len(states)
    THEN None
    ELSE LET hit == State(states[index], name)
         IN  IF hit.some
             THEN Some(<<index>> \o hit.val)
             ELSE StateFindMap(states, name, index + 1)

RECURSIVE System(_, _), SystemFindMap(_, _, _)
\* OrbitalSystem::system
System(sys, name) ==
    IF sys.primary.name = name
    THEN Some(<<>>)
    ELSE SystemFindMap(sys.secondary, name, 1)

\* self.secondary.iter().find_map(|system| system.system(name))
SystemFindMap(systems, name, index) ==
    IF index > Len(systems)
    THEN None
    ELSE LET hit == System(systems[index], name)
         IN  IF hit.some
             THEN Some(<<index>> \o hit.val)
             ELSE SystemFindMap(systems, name, index + 1)

\* Iterator::max over a non-empty set of distances.
MaxOf(set) == CHOOSE x \in set : \A y \in set : y <= x

\* primary.radius + orbit.map(|orbit| orbit.radius()).unwrap_or_default()
OwnRadius(sys) ==
    sys.primary.radius + (IF sys.orbit.some THEN OrbitRadius(sys.orbit.val)
                          ELSE 0)

RECURSIVE RadiusNearest(_), Radius(_)
RadiusNearest(sys) ==
    IF sys.secondary = <<>>
    THEN OwnRadius(sys)
    ELSE LET each == {Radius(sys.secondary[i]) + OwnRadius(sys) :
                          i \in 1..Len(sys.secondary)}
         IN  CHOOSE x \in each : \A y \in each : x <= y

\* OrbitalSystem::radius
Radius(sys) ==
    IF sys.secondary = <<>>
    THEN OwnRadius(sys)
    ELSE MaxOf({Radius(sys.secondary[i]) + OwnRadius(sys) :
                    i \in 1..Len(sys.secondary)})

----------------------------------------------------------------------------
(* SystemStats: the constant stats of a system.  The habitable zone, a     *)
(* function of the body's luminosity alone, is left out.                   *)

RECURSIVE StatsNew(_, _), StatsNewEach(_, _, _)
StatsNewAgainstSelf(sys, orbitee) ==
    LET both == orbitee.some /\ sys.orbit.some
        period == IF both
                  THEN OrbitPeriod(sys.orbit.val, sys.primary)
                  ELSE Ok(0)
    IN  IF ~period.ok
        THEN Panic
        ELSE LET secondary == StatsNewEach(sys.secondary, Some(sys), 1)
             IN  IF ~secondary.ok
                 THEN Panic
                 ELSE Ok([body |-> sys.primary.name,
                          radius |-> IF sys.orbit.some
                                     THEN OrbitRadius(sys.orbit.val) ELSE 0,
                          perimeter |-> IF sys.orbit.some
                                        THEN OrbitPerimeter(sys.orbit.val)
                                        ELSE 0,
                          orbital_period |-> period.val,
                          min_velocity |->
                              IF both
                              THEN OrbitMinVelocity(sys.orbit.val, sys.primary)
                              ELSE 0,
                          max_velocity |->
                              IF both
                              THEN OrbitMaxVelocity(sys.orbit.val, sys.primary)
                              ELSE 0,
                          secondary |-> secondary.val])

\* SystemStats::new
StatsNew(sys, orbitee) ==
    LET both == orbitee.some /\ sys.orbit.some
        period == IF both
                  THEN OrbitPeriod(sys.orbit.val, orbitee.val.primary)
                  ELSE Ok(0)
    IN  IF ~period.ok
        THEN Panic
        ELSE LET secondary == StatsNewEach(sys.secondary, Some(sys), 1)
             IN  IF ~secondary.ok
                 THEN Panic
                 ELSE Ok([body |-> sys.primary.name,
                          radius |-> IF sys.orbit.some
                                     THEN OrbitRadius(sys.orbit.val) ELSE 0,
                          perimeter |-> IF sys.orbit.some
                                        THEN OrbitPerimeter(sys.orbit.val)
                                        ELSE 0,
                          orbital_period |-> period.val,
                          min_velocity |->
                              IF both
                              THEN OrbitMinVelocity(sys.orbit.val,
                                                    orbitee.val.primary)
                              ELSE 0,
                          max_velocity |->
                              IF both
                              THEN OrbitMaxVelocity(sys.orbit.val,
                                                    orbitee.val.primary)
                              ELSE 0,
                          secondary |-> secondary.val])

\* system.secondary.iter().map(|subsystem| SystemStats::new(subsystem,
\* Some(system))) from the index-th subsystem on.
StatsNewEach(systems, orbitee, index) ==
    IF index > Len(systems)
    THEN Ok(<<>>)
    ELSE LET head == StatsNew(systems[index], orbitee)
         IN  IF ~head.ok
             THEN Panic
             ELSE LET tail == StatsNewEach(systems, orbitee, index + 1)
                  IN  IF ~tail.ok
                      THEN Panic
                      ELSE Ok(<<head.val>> \o tail.val)

\* impl From<&OrbitalSystem<O>> for SystemStats
StatsFrom(sys) == StatsNew(sys, None)

RECURSIVE Stats(_, _), StatsFindMap(_, _, _)
\* SystemStats::stats
Stats(stats, name) ==
    IF stats.body = name
    THEN Some(<<>>)
    ELSE StatsFindMap(stats.secondary, name, 1)

\* find_map that compares the children's names and does not descend.
StatsFindMapShallow(statses, name, index) ==
    IF index > Len(statses)
    THEN None
    ELSE IF statses[index].body = name
         THEN Some(<<index>>)
         ELSE StatsFindMap(statses, name, index + 1)

\* self.secondary.iter().find_map(|system| system.stats(name))
StatsFindMap(statses, name, index) ==
    IF index > Len(statses)
    THEN None
    ELSE LET hit == Stats(statses[index], name)
         IN  IF hit.some
             THEN Some(<<index>> \o hit.val)
             ELSE StatsFindMap(statses, name, index + 1)

----------------------------------------------------------------------------
(* The system descriptions the model is run on.                            *)

\* A star, a planet, and a body built with Rotation::default() and
\* Mass::default().
Sun == Body("Sun", 2, 8, 1000000000, 1)

Earth == Body("Earth", 1, 4, 1000000000, 0)

Blank == Body("Blank", 0, 0, 0, 0)

\* The names asked for; no body is called "Mars".
Names == {"Sun", "Earth", "Mars"}

OrbitA == Orbit(Coords(0, 0, 0), Coords(1, 0, 0), Coords(0, 0, 1),
                Coords(0, 0, 0))

OrbitB == Orbit(Coords(0, 0, 0), Coords(0, 1, 0), Coords(0, 0, 2),
                Coords(-1, 0, 0))

\* The nodes of the descriptions: a body and its orbit, if any.
Nodes == {<<Sun, None>>, <<Earth, Some(OrbitA)>>, <<Earth, Some(OrbitB)>>,
          <<Blank, None>>}

RECURSIVE SystemsOfSize(_), ForestsOfSize(_)
\* The system trees of exactly n nodes.
SystemsOfSize(n) ==
    IF n = 0
    THEN {}
    ELSE {OrbitalSystem(node[1], node[2], f) :
              node \in Nodes, f \in ForestsOfSize(n - 1)}

\* The lists of system trees of exactly n nodes in total.
ForestsOfSize(n) ==
    IF n = 0
    THEN {<<>>}
    ELSE UNION {{<<t>> \o f : t \in SystemsOfSize(k),
                               f \in ForestsOfSize(n - k)} : k \in 1..n}

Systems == UNION {SystemsOfSize(n) : n \in 1..MaxNodes}

Times == 0..MaxTime

----------------------------------------------------------------------------
(* The queries on a system description.                                    *)

NoDerived == [kind |-> "none", time |-> 0, res |-> Panic]

NoFound == [on |-> "none", name |-> "", res |-> None]

NoShape == [kind |-> "none"]

NoCall == [op |-> "none"]

NoRet == [ok |-> FALSE]

Init ==
    /\ system \in Systems
    /\ derived = NoDerived
    /\ found = NoFound
    /\ shape = NoShape
    /\ call = NoCall
    /\ ret = NoRet

\* system.state_at(time)
StateAt(time) ==
    /\ derived' = [kind |-> "state", time |-> time,
                   res |-> StateAtOf(system, time)]
    /\ found' = NoFound
    /\ UNCHANGED <<system, shape, call, ret>>

\* SystemStats::from(&system)
StatsOf ==
    /\ derived' = [kind |-> "stats", time |-> 0, res |-> StatsFrom(system)]
    /\ found' = NoFound
    /\ UNCHANGED <<system, shape, call, ret>>

\* system.radius()
RadiusOf ==
    /\ derived' = [kind |-> "radius", time |-> 0, res |-> Ok(Radius(system))]
    /\ found' = NoFound
    /\ UNCHANGED <<system, shape, call, ret>>

\* system.system(name)
SystemByName(name) ==
    /\ found' = [on |-> "system", name |-> name, res |-> System(system, name)]
    /\ UNCHANGED <<system, derived, shape, call, ret>>

\* state.state(name), on the state last computed
StateByName(name) ==
    /\ derived.kind = "state"
    /\ derived.res.ok
    /\ found' = [on |-> "state", name |-> name,
                 res |-> State(derived.res.val, name)]
    /\ UNCHANGED <<system, derived, shape, call, ret>>

\* stats.stats(name), on the stats last computed
StatsByName(name) ==
    /\ derived.kind = "stats"
    /\ derived.res.ok
    /\ found' = [on |-> "stats", name |-> name,
                 res |-> Stats(derived.res.val, name)]
    /\ UNCHANGED <<system, derived, shape, call, ret>>

Next ==
    \/ \E time \in Times : StateAt(time)
    \/ StatsOf
    \/ RadiusOf
    \/ \E name \in Names : SystemByName(name)
    \/ \E name \in Names : StateByName(name)
    \/ \E name \in Names : StatsByName(name)

Spec == Init /\ [][Next]_vars

----------------------------------------------------------------------------
(* Trees: the paths of a tree and the node a path leads to.  The three     *)
(* kinds of tree (system, state, stats) keep their children in `secondary`.*)

RECURSIVE PathsOf(_)
PathsOf(tree) ==
    {<<>>} \cup UNION {{<<i>> \o p : p \in PathsOf(tree.secondary[i])} :
                          i \in 1..Len(tree.secondary)}

RECURSIVE NodeAt(_, _)
NodeAt(tree, path) ==
    IF path = <<>>
    THEN tree
    ELSE NodeAt(tree.secondary[Head(path)], Tail(path))

Parent(path) == SubSeq(path, 1, Len(path) - 1)

\* The name a lookup compares: primary.name in a system, body in a state or
\* in stats.
NameAt(on, tree, path) ==
    IF on = "system" THEN NodeAt(tree, path).primary.name
    ELSE NodeAt(tree, path).body

\* path comes before other in depth-first pre-order: a node before its
\* children, children left to right.
RECURSIVE PreOrderBefore(_, _)
PreOrderBefore(path, other) ==
    IF path = <<>> THEN other # <<>>
    ELSE IF other = <<>> THEN FALSE
    ELSE IF Head(path) # Head(other) THEN Head(path) < Head(other)
    ELSE PreOrderBefore(Tail(path), Tail(other))

HasState == derived.kind = "state" /\ derived.res.ok

HasStats == derived.kind = "stats" /\ derived.res.ok

HasRadius == derived.kind = "radius" /\ derived.res.ok

\* The tree a lookup was made on.
LookedUp == IF found.on = "system" THEN system ELSE derived.res.val

----------------------------------------------------------------------------
\* C1: in a state tree, every non-root node that has an orbit is placed at
\* its orbit's position at that time around the direct parent's body, moved
\* by the parent's own position in the same state tree and then by the
\* orbit's focus.
C1_PositionComposesOnParent ==
    HasState =>
        \A path \in PathsOf(system) \ {<<>>} :
            LET node == NodeAt(system, path)
                above == NodeAt(system, Parent(path))
                aboveState == NodeAt(derived.res.val, Parent(path))
            IN  node.orbit.some =>
                    NodeAt(derived.res.val, path).position =
                        Translate(Translation(OrbitFocus(node.orbit.val)),
                            Translate(Translation(aboveState.position),
                                OrbitPositionAt(node.orbit.val, derived.time,
                                                above.primary).val))

\* A grandchild with an orbit whose parent is away from the origin.
C1_Witness ==
    /\ HasState
    /\ \E path \in PathsOf(system) :
           /\ Len(path) = 2
           /\ NodeAt(system, path).orbit.some
           /\ NodeAt(derived.res.val, Parent(path)).position # CoordsDefault
           /\ NodeAt(derived.res.val, path).position
                  # NodeAt(derived.res.val, Parent(path)).position

RECURSIVE Spine(_, _)
\* The tree cut down to the path from its root to a node: every node on the
\* path keeps only its child on the path, the last node keeps none.
Spine(tree, path) ==
    IF path = <<>>
    THEN [tree EXCEPT !.secondary = <<>>]
    ELSE [tree EXCEPT !.secondary =
                          <<Spine(tree.secondary[Head(path)], Tail(path))>>]

FirstChildren(n) == [i \in 1..n |-> 1]

OwnState(state) ==
    <<state.rotation, state.position, state.theta, state.velocity>>

C3_StateAtNeverPanics == derived.kind = "state" => derived.res.ok

RECURSIVE StateMirrors(_, _, _, _), StatsMirrors(_, _, _)
\* A state tree has the name of the system's body, and its i-th child is the
\* state of the system's i-th child around this node.
StateMirrors(time, sys, parent, state) ==
    /\ state.body = sys.primary.name
    /\ Len(state.secondary) = Len(sys.secondary)
    /\ \A i \in 1..Len(sys.secondary) :
           LET around == Some(BodyPosition(sys.primary, state.position))
           IN  /\ state.secondary[i] = At(time, sys.secondary[i], around).val
               /\ StateMirrors(time, sys.secondary[i], around,
                               state.secondary[i])

StatsMirrors(sys, orbitee, stats) ==
    /\ stats.body = sys.primary.name
    /\ Len(stats.secondary) = Len(sys.secondary)
    /\ \A i \in 1..Len(sys.secondary) :
           /\ stats.secondary[i] = StatsNew(sys.secondary[i], Some(sys)).val
           /\ StatsMirrors(sys.secondary[i], Some(sys), stats.secondary[i])

\* C4: the state tree and the stats tree have the shape of the system tree:
\* at every node as many children as the system node, the i-th derived from
\* the system's i-th, and the name of the system's body.
C4_DerivedTreesMirrorSystem ==
    /\ HasState => StateMirrors(derived.time, system, None, derived.res.val)
    /\ HasStats => StatsMirrors(system, None, derived.res.val)

\* A derived tree of three nodes whose root has two children of different
\* names.
C4_Witness ==
    /\ HasState
    /\ Len(system.secondary) = 2
    /\ system.secondary[1].primary.name # system.secondary[2].primary.name

\* C5: the root of a state tree is at the origin with theta zero and velocity
\* zero.
C5_RootAtOrigin ==
    HasState =>
        /\ derived.res.val.position = CoordsDefault
        /\ derived.res.val.theta = 0
        /\ derived.res.val.velocity = 0

\* The root has its orbit set and time has moved on.
C5_Witness == HasState /\ system.orbit.some /\ derived.time = 1

C7_NoneIffAbsent ==
    found.on # "none" =>
        (found.res.some <=>
             \E path \in PathsOf(LookedUp) :
                 NameAt(found.on, LookedUp, path) = found.name)

\* A lookup on a stats tree that finds the name on a grandchild only.
C7_Witness ==
    /\ found.on = "stats"
    /\ found.res.some
    /\ Len(found.res.val) = 2

----------------------------------------------------------------------------
(* The shapes the model is run on, and the operations on one shape.        *)

Thetas == 1..TWO_PI

Arcs ==
    {[kind |-> "arc", val |-> Arc(c, Translate(Translation(c), r[1]), r[2], t)] :
         c \in {Coords(0, 0, 0), Coords(2, 0, 0), Coords(0, -1, 3)},
         r \in {<<Coords(1, 0, 0), Coords(0, 0, 1)>>,
                <<Coords(0, 1, 0), Coords(3, 0, 0)>>},
         t \in Thetas}

Ellipses ==
    {[kind |-> "ellipse", val |-> Ellipse(f[1], f[2], f[3], t)] :
         f \in {<<Coords(25, 0, 0), Coords(-15, 0, 0), Coords(15, 0, 0)>>,
                <<Coords(4, 0, 0), Coords(0, 0, 0), Coords(0, 0, 0)>>,
                <<Coords(1, 25, 0), Coords(1, -15, 0), Coords(1, 15, 0)>>,
                <<Coords(0, 0, 20), Coords(-15, 0, 0), Coords(15, 0, 0)>>},
         t \in {2, TWO_PI}}

Shapes == Arcs \cup Ellipses

\* Bodies whose mass makes the period of the model's ellipses a whole number
\* of ticks.
Giant == Body("Giant", 3, 8, 15625, 0)

Dwarf == Body("Dwarf", 1, 8, 64, 0)

\* The bodies a shape is made to orbit: one without mass, and those around
\* which its period is a whole number of ticks.
Orbitees(s) ==
    IF s.kind = "arc"
    THEN {Sun, Blank}
    ELSE {Blank} \cup
         {b \in {Giant, Dwarf} :
              LET a == EllipseSemiMajorAxis(s.val)
              IN  (TWO_PI * Isqrt(a * a * a)) % Isqrt(b.mass) = 0}

\* Sample::sample
SampleOf(s, segments) ==
    IF s.kind = "arc" THEN ArcSample(s.val, segments)
    ELSE EllipseSample(s.val, segments)

\* Orbit::orbit
OrbitOf(s, time, body) ==
    IF s.kind = "arc" THEN ArcOrbit(s.val, time, body)
    ELSE EllipseOrbit(s.val, time, body)

\* Orbit::period
PeriodOf(s, body) ==
    IF s.kind = "arc" THEN ArcPeriod(s.val, body)
    ELSE EllipsePeriod(s.val, body)

ShapeInit ==
    /\ shape \in Shapes
    /\ call = NoCall
    /\ ret = NoRet
    /\ system = OrbitalSystem(Sun, None, <<>>)
    /\ derived = NoDerived
    /\ found = NoFound

\* shape.sample(segments)
Sample(segments) ==
    /\ shape.val.theta % segments = 0
    /\ call' = [op |-> "sample", segments |-> segments]
    /\ ret' = Ok(SampleOf(shape, segments))
    /\ UNCHANGED <<shape, system, derived, found>>

\* shape.orbit(time, body)
OrbitCall(time, body) ==
    /\ call' = [op |-> "orbit", time |-> time, body |-> body]
    /\ ret' = OrbitOf(shape, time, body)
    /\ UNCHANGED <<shape, system, derived, found>>

\* arc.end()
End ==
    /\ shape.kind = "arc"
    /\ call' = [op |-> "end"]
    /\ ret' = Ok(ArcEnd(shape.val))
    /\ UNCHANGED <<shape, system, derived, found>>

\* shape.period(body)
Period(body) ==
    /\ call' = [op |-> "period", body |-> body]
    /\ ret' = PeriodOf(shape, body)
    /\ UNCHANGED <<shape, system, derived, found>>

\* Orbit::velocity
VelocityOf(s, body) ==
    IF s.kind = "arc" THEN ArcVelocity(s.val, body)
    ELSE EllipseVelocity(s.val, body)

\* shape.velocity(body), around a body under which the velocity is a whole
\* number of metres per tick, or one without mass.
Velocity(body) ==
    /\ call' = [op |-> "velocity", body |-> body]
    /\ ret' = Ok(VelocityOf(shape, body))
    /\ UNCHANGED <<shape, system, derived, found>>

\* The semi-major axes and the eccentricities an ellipse is built from:
\* 0, 3/5, 4/5, 1 and 6/5.
SemiMajorAxes == {5, 25}

Eccentricities == {<<0, 1>>, <<3, 5>>, <<4, 5>>, <<1, 1>>, <<6, 5>>}

\* Ellipse::new(semi_major_axis, eccentricity): it returns Self, there is no
\* error to return.
New(semi_major_axis, eccentricity) ==
    /\ call' = [op |-> "new", semi_major_axis |-> semi_major_axis,
                eccentricity |-> eccentricity]
    /\ ret' = Ok(EllipseNew(semi_major_axis, eccentricity))
    /\ UNCHANGED <<shape, system, derived, found>>

\* The semi axes and the eccentricities of an ellipse.
AxesOf(e) ==
    [semi_major_axis |-> EllipseSemiMajorAxis(e),
     semi_minor_axis |-> EllipseSemiMinorAxis(e),
     eccentricity |-> EllipseEccentricity(e),
     linear_eccentricity |-> EllipseLinearEccentricity(e)]

\* ellipse.semi_major_axis(), .semi_minor_axis(), .eccentricity() and
\* .linear_eccentricity()
SemiAxes ==
    /\ shape.kind = "ellipse"
    /\ call' = [op |-> "axes"]
    /\ ret' = Ok(AxesOf(shape.val))
    /\ UNCHANGED <<shape, system, derived, found>>

ShapeNext ==
    \/ \E segments \in 1..MaxSegments : Sample(segments)
    \/ \E time \in Times : \E body \in Orbitees(shape) : OrbitCall(time, body)
    \/ End
    \/ \E a \in SemiMajorAxes : \E e \in Eccentricities : New(a, e)
    \/ \E body \in Orbitees(shape) : Period(body)
    \/ \E body \in {Sun, Blank} : Velocity(body)
    \/ SemiAxes

ShapeSpec == ShapeInit /\ [][ShapeNext]_vars

----------------------------------------------------------------------------
\* C8: the position on an orbit at a time and one period later are the same,
\* for an Arc and for an Ellipse around a body with mass.
C8_OrbitIsPeriodic ==
    (call.op = "orbit" /\ call.body.mass > 0 /\ ret.ok) =>
        OrbitOf(shape, call.time + PeriodOf(shape, call.body).val, call.body)
            = ret

\* An orbit asked for partway through its period, on each kind of shape.
C8_Witness ==
    /\ call.op = "orbit"
    /\ shape.kind = "ellipse"
    /\ ret.ok
    /\ call.time % PeriodOf(shape, call.body).val = 1

DistanceSquared(a, b) ==
    (a[1] - b[1]) * (a[1] - b[1]) + (a[2] - b[2]) * (a[2] - b[2])
        + (a[3] - b[3]) * (a[3] - b[3])

\* The angle Arc::orbit turns by at a time, and Arc::end turns by.
TurnOf(c) ==
    IF c.op = "end"
    THEN shape.val.theta
    ELSE RadianFrom((TWO_PI * Rem(c.time, ArcPeriod(shape.val, c.body).val))
                        \div ArcPeriod(shape.val, c.body).val)

\* C9: Arc::orbit and Arc::end return the start point turned about the
\* centre (moved by -centre, turned, moved back by +centre), a point as far
\* from the centre as the start point is.
C9_ArcTurnsAboutItsCenter ==
    (shape.kind = "arc" /\ call.op \in {"orbit", "end"} /\ ret.ok) =>
        /\ ret.val =
               Translate(Translation(shape.val.center),
                   Rotate(Rotation(shape.val.axis, TurnOf(call)),
                       Translate(TranslationNeg(Translation(shape.val.center)),
                                 shape.val.start)))
        /\ DistanceSquared(ret.val, shape.val.center)
               = DistanceSquared(shape.val.start, shape.val.center)

\* C10: sample(n) returns exactly n points, for an Arc and for an Ellipse.
C10_SampleReturnsSegmentsPoints ==
    (call.op = "sample" /\ ret.ok) => Len(ret.val) = call.segments

\* An arc sampled into three points.
C10_Witness ==
    /\ call.op = "sample"
    /\ shape.kind = "arc"
    /\ call.segments = 3
    /\ ret.ok
    /\ ret.val[3] # ret.val[1]

\* The start point of an arc turned by an angle about the centre, around the
\* arc's axis.
TurnedAboutCenter(arc, theta) ==
    Translate(Translation(arc.center),
        Rotate(Rotation(arc.axis, RadianFrom(theta)),
            Translate(TranslationNeg(Translation(arc.center)), arc.start)))

\* C11: every point of an Arc's sample(n) is as far from the centre as the
\* start point, and the i-th point is the start point turned i - 1 times by
\* theta / n about the centre: consecutive points are theta / n apart.
C11_ArcSampleStaysOnCircle ==
    (call.op = "sample" /\ shape.kind = "arc" /\ ret.ok) =>
        \A i \in 1..Len(ret.val) :
            /\ DistanceSquared(ret.val[i], shape.val.center)
                   = DistanceSquared(shape.val.start, shape.val.center)
            /\ ret.val[i] =
                   TurnedAboutCenter(shape.val,
                       (i - 1) * (shape.val.theta \div call.segments))

\* A full circle about a centre away from the origin, sampled into four
\* points a quarter turn apart.
C11_Witness ==
    /\ call.op = "sample"
    /\ shape.kind = "arc"
    /\ shape.val.center # CoordsDefault
    /\ shape.val.theta = TWO_PI
    /\ call.segments = 4
    /\ ret.ok
    /\ Cardinality({ret.val[i] : i \in 1..Len(ret.val)}) = 4

\* C13: Ellipse::new with an eccentricity of one or more is rejected: it
\* returns an InvalidOrbitParameters error and no Ellipse.
C13_NewRejectsEccentricity ==
    (call.op = "new" /\ call.eccentricity[1] >= call.eccentricity[2]) =>
        ~ret.ok

\* The semi-major axis of a shape, in cartesian units: the radius of an Arc.
SemiMajorAxisOf(s) ==
    IF s.kind = "arc" THEN ArcRadius(s.val) ELSE EllipseSemiMajorAxis(s.val)

\* C14: the period of an Arc and of an Ellipse is 2 pi sqrt(a^3 / mu) with a
\* in metres, that is (period / 2 pi)^2 * mu / a^3 is the cube of the metres
\* in a cartesian unit.  Stated on the periods that are whole multiples of
\* 2 pi ticks, where the quotients are exact.
C14_PeriodIsKeplersInMeters ==
    (call.op = "period" /\ ret.ok /\ call.body.mass > 0
        /\ ret.val % TWO_PI = 0) =>
        LET turns == ret.val \div TWO_PI
            a == SemiMajorAxisOf(shape)
        IN  (turns * turns * GravitationalParameter(call.body))
                \div (a * a * a)
                = METERS_PER_KM * METERS_PER_KM * METERS_PER_KM

\* The distance from the start point of an ellipse to the focus the orbited
\* body is at, foci[0], in cartesian units.
FocusDistance(e) == Distance(e.start, e.foci[1])

\* The gravitational parameter per metres in a cartesian unit: with it the
\* vis-viva equation is stated on lengths in cartesian units.
ScaledParameter(body) == GravitationalParameter(body) \div METERS_PER_KM

\* C15, as the code has it: the velocity of an elliptical orbit satisfies
\* v^2 = mu (2 / r - 1 / a), that is v^2 a r = mu (2 a - r), with r the
\* distance from the start point to foci[0] and a the semi-major axis.
C15_VisViva ==
    (call.op = "velocity" /\ shape.kind = "ellipse") =>
        LET a == EllipseSemiMajorAxis(shape.val)
            r == FocusDistance(shape.val)
        IN  ret.val * ret.val * a * r = ScaledParameter(call.body) * (2 * a - r)

\* C15, as stated: v^2 = mu (2 / r - 1 / (2 a)), that is
\* v^2 2 a r = mu (4 a - r).
C15_VisVivaAsStated ==
    (call.op = "velocity" /\ shape.kind = "ellipse") =>
        LET a == EllipseSemiMajorAxis(shape.val)
            r == FocusDistance(shape.val)
        IN  ret.val * ret.val * 2 * a * r
                = ScaledParameter(call.body) * (4 * a - r)

\* The velocity on an ellipse that is not a circle, around a body with mass.
C15_Witness ==
    /\ call.op = "velocity"
    /\ shape.kind = "ellipse"
    /\ shape.val.foci[1] # shape.val.foci[2]
    /\ FocusDistance(shape.val) # EllipseSemiMajorAxis(shape.val)
    /\ call.body.mass > 0
    /\ ret.val > 0

\* C16: the spin angle of every body with a spin period P > 0 is
\* (2 pi / P) (t mod P), below 2 pi: the angle times P is 2 pi times the time
\* into the period, for whole and fractional seconds alike.
C16_SpinIsLinearInTime ==
    HasState =>
        \A path \in PathsOf(system) :
            LET period == NodeAt(system, path).primary.spin.period
                rotation == NodeAt(derived.res.val, path).rotation
            IN  period > 0 =>
                    /\ rotation * period = TWO_PI * Rem(derived.time, period)
                    /\ 0 <= rotation
                    /\ rotation < TWO_PI

\* The own radii of the nodes from the root down to the node at path, summed.
RECURSIVE RadiusAlong(_, _)
RadiusAlong(sys, path) ==
    OwnRadius(sys) + (IF path = <<>> THEN 0
                      ELSE RadiusAlong(sys.secondary[Head(path)], Tail(path)))

\* The radius() of the node at path, from the claim's words: the farthest
\* reach of a chain of own radii that starts at the node.
ExtentAt(sys, path) ==
    MaxOf({RadiusAlong(NodeAt(sys, path), below) :
               below \in PathsOf(NodeAt(sys, path))})

\* C17: radius() of a system is the node's own radius (the body's radius plus
\* the radius of its own orbit, if it has one) plus the largest radius()
\* among its children, and the own radius alone when it has no children; at
\* every node of the tree.
C17_RadiusIsOwnPlusLargestChild ==
    HasRadius =>
        /\ derived.res.val = ExtentAt(system, <<>>)
        /\ \A path \in PathsOf(system) :
               LET node == NodeAt(system, path)
                   own == node.primary.radius
                              + (IF node.orbit.some
                                 THEN Distance(node.orbit.val.center,
                                               node.orbit.val.start)
                                 ELSE 0)
                   children == {ExtentAt(system, path \o <<i>>) :
                                    i \in 1..Len(node.secondary)}
               IN  Radius(node)
                       = IF children = {} THEN own
                         ELSE own + MaxOf(children)

\* radius() was taken of a system whose children differ in radius(): the
\* result goes through the larger one, which is not the first child.
C17_Witness ==
    /\ HasRadius
    /\ Len(system.secondary) = 2
    /\ Radius(system.secondary[1]) < Radius(system.secondary[2])
    /\ derived.res.val = OwnRadius(system) + Radius(system.secondary[2])
    /\ OwnRadius(system) > 0

\* C18: in the stats of a system the root reports a zero orbital period and
\* zero minimum and maximum velocities, and, having no orbit, a zero radius
\* and perimeter; every other node that has an orbit reports the period and
\* the minimum and maximum velocities of that orbit about the body of its
\* direct parent.
C18_StatsAgainstDirectParent ==
    HasStats =>
        /\ derived.res.val.orbital_period = 0
        /\ derived.res.val.min_velocity = 0
        /\ derived.res.val.max_velocity = 0
        /\ ~system.orbit.some =>
               /\ derived.res.val.radius = 0
               /\ derived.res.val.perimeter = 0
        /\ \A path \in PathsOf(system) \ {<<>>} :
               LET node == NodeAt(system, path)
                   parent == NodeAt(system, Parent(path))
                   stats == NodeAt(derived.res.val, path)
               IN  node.orbit.some =>
                       LET period == OrbitPeriod(node.orbit.val,
                                                 parent.primary)
                       IN  /\ period.ok
                           /\ stats.orbital_period = period.val
                           /\ stats.min_velocity
                                  = OrbitMinVelocity(node.orbit.val,
                                                     parent.primary)
                           /\ stats.max_velocity
                                  = OrbitMaxVelocity(node.orbit.val,
                                                     parent.primary)

\* The stats were taken of a tree three levels deep whose lowest node has an
\* orbit about a parent that is neither the root's body nor its own, and
\* reports a period.
C18_Witness ==
    /\ HasStats
    /\ ~system.orbit.some
    /\ \E path \in PathsOf(system) :
           /\ Len(path) = 2
           /\ NodeAt(system, path).orbit.some
           /\ NodeAt(system, Parent(path)).primary # system.primary
           /\ NodeAt(system, Parent(path)).primary
                  # NodeAt(system, path).primary
           /\ NodeAt(derived.res.val, path).orbital_period > 0
           /\ NodeAt(derived.res.val, path).max_velocity > 0

----------------------------------------------------------------------------
(* The walk of Ellipse::orbit along the curve, one iteration of its `while`  *)
(* loop at a time.  The orbit is asked for at the times that are a whole     *)
(* number of periods, where every value of the walk is exact.                *)

MaxIterations == 3

\* Gravitational parameters under which the period of the model's ellipses
\* is one, two or four ticks.
WalkBodies ==
    {Body("Star", 1, 8, mass, 0) :
         mass \in {64, 256, 1024, 15625, 62500, 250000}}

\* The bodies around which the orbit is asked for at a time: those whose
\* period is a whole number of ticks that divides the time.
WalkOrbitees(e, time) ==
    {body \in WalkBodies :
         LET a == EllipseSemiMajorAxis(e)
             root == Isqrt(GravitationalParameter(body))
         IN  /\ (TWO_PI * Isqrt(a * a * a)) % root = 0
             /\ EllipsePeriod(e, body).val > 0
             /\ Rem(time, EllipsePeriod(e, body).val) = 0}

\* The point of the curve at an angle from the start point, in the frame of
\* the ellipse: (a cos(initial_theta + theta), b sin(initial_theta + theta)).
WalkCoord(e, theta) ==
    LET start == EllipseFrame(e).ellipse.start
        initialTheta == Atan2(start[2], start[1])
    IN  Coords(EllipseSemiMajorAxis(e) * Cos(initialTheta + theta),
               EllipseSemiMinorAxis(e) * Sin(initialTheta + theta), 0)

\* S::distance(coord.distance(&ellipse.start)).as_meters()
WalkDistance(e, theta) ==
    AsMeters(Distance(WalkCoord(e, theta), EllipseFrame(e).ellipse.start))

WalkInit ==
    /\ shape \in Ellipses
    /\ call = NoCall
    /\ ret = NoRet
    /\ system = OrbitalSystem(Sun, None, <<>>)
    /\ derived = NoDerived
    /\ found = NoFound

\* Ellipse::orbit up to its loop: the reduced time, the metres to travel at
\* the velocity of the start point, the first angle and its distance.
OrbitEnter(time, body) ==
    /\ call.op # "walking"
    /\ LET e == shape.val
           elapsed == Rem(time, EllipsePeriod(e, body).val)
           meters == EllipseVelocity(EllipseFrame(e).ellipse, body) * elapsed
           perimeter == AsMeters(EllipsePerimeter(EllipseFrame(e).ellipse))
           theta == IF meters = 0 THEN 0 ELSE (TWO_PI * meters) \div perimeter
       IN  call' = [op |-> "walking", time |-> time, body |-> body,
                    meters |-> meters, theta |-> theta,
                    distance |-> WalkDistance(e, theta), iterations |-> 0]
    /\ ret' = NoRet
    /\ UNCHANGED <<shape, system, derived, found>>

\* One iteration of `while distance.as_meters() > meters`.
OrbitLoop ==
    /\ call.op = "walking"
    /\ call.distance > call.meters
    /\ call.iterations < MaxIterations
    /\ LET theta == (call.theta * call.meters) \div call.distance
       IN  call' = [call EXCEPT !.theta = theta,
                                !.distance = WalkDistance(shape.val, theta),
                                !.iterations = @ + 1]
    /\ UNCHANGED <<shape, ret, system, derived, found>>

\* The exit of the loop: the point found, mapped back out of the frame.
OrbitReturn ==
    /\ call.op = "walking"
    /\ ~(call.distance > call.meters)
    /\ call' = [op |-> "orbit", time |-> call.time, body |-> call.body]
    /\ ret' = Ok(EllipseUnframe(EllipseFrame(shape.val),
                                WalkCoord(shape.val, call.theta)))
    /\ UNCHANGED <<shape, system, derived, found>>

WalkNext ==
    \/ \E time \in Times :
           \E body \in WalkOrbitees(shape.val, time) : OrbitEnter(time, body)
    \/ OrbitLoop
    \/ OrbitReturn

WalkSpec == WalkInit /\ [][WalkNext]_vars

\* C12: Ellipse::orbit returns: within MaxIterations iterations its loop has
\* met its exit condition, the distance walked being no more than the metres
\* to travel.
C12_OrbitWalkReturns ==
    (call.op = "walking" /\ call.iterations = MaxIterations) =>
        call.distance <= call.meters

----------------------------------------------------------------------------
(* Radian::from on the angles of a bounded range, in quarter turns.        *)

\* The angles converted reach MaxAngle quarter turns to either side of zero.
MaxAngle == 64

Angles == -MaxAngle..MaxAngle

RadianInit ==
    /\ call = NoCall
    /\ ret = NoRet
    /\ shape = NoShape
    /\ system = OrbitalSystem(Sun, None, <<>>)
    /\ derived = NoDerived
    /\ found = NoFound

\* Radian::from(value)
From(value) ==
    /\ call' = [op |-> "from", value |-> value]
    /\ ret' = Ok(RadianFrom(value))
    /\ UNCHANGED <<shape, system, derived, found>>

RadianNext == \E value \in Angles : From(value)

RadianSpec == RadianInit /\ [][RadianNext]_vars

C20_RadianIsResidue ==
    (call.op = "from" /\ (call.value < 0 \/ call.value > TWO_PI)) =>
        /\ 0 <= ret.val
        /\ ret.val < TWO_PI
        /\ \E turns \in -MaxAngle..MaxAngle :
               ret.val = call.value + turns * TWO_PI

\* Minus a quarter turn was converted, and came back as three quarter turns.
C20_Witness ==
    /\ call.op = "from"
    /\ call.value = -1
    /\ ret.val = 3

\* C21: Radian::from leaves every value of the closed interval [0, 2 pi] as
\* it is; 2 pi stays 2 pi, a full turn, and is_full() is true of it and of
\* no other value.
C21_RadianKeepsClosedTurn ==
    (call.op = "from" /\ 0 <= call.value /\ call.value <= TWO_PI) =>
        /\ ret.val = call.value
        /\ IsFull(ret.val) <=> call.value = TWO_PI

\* A full turn was converted and is_full() holds of the result.
C21_Witness ==
    /\ call.op = "from"
    /\ call.value = TWO_PI
    /\ ret.ok
    /\ IsFull(ret.val)

----------------------------------------------------------------------------
(* The arithmetic of Distance and Radian.  A Distance is its kilometres and *)
(* a Radian its quarter turns; a result that f64 gives as an infinity or as *)
(* a NaN is told apart from a number.                                       *)

\* Distances reach MaxKm kilometres and scalars MaxScalar to either side of
\* zero.
MaxKm == 3

MaxScalar == 2

Distances == 0..MaxKm

Scalars == -MaxScalar..MaxScalar

Radians == 0..TWO_PI

Finite(n) == [kind |-> "num", val |-> n]

Infinite == [kind |-> "inf"]

NotANumber == [kind |-> "nan"]

\* PositiveFloat::from: f64::abs, which keeps an infinity and a NaN.
PositiveFloatFrom(value) ==
    IF value.kind = "num" THEN Finite(Abs(value.val)) ELSE value

\* f64 division of a number by a scalar that divides it, or by zero.
Quotient(value, rhs) ==
    IF rhs > 0 THEN Finite(value \div rhs)
    ELSE IF rhs < 0 THEN Finite(-(value \div (-rhs)))
    ELSE IF value = 0 THEN NotANumber
    ELSE Infinite

\* Radian::from of an f64 that may be an infinity or a NaN: neither is in
\* the range, and the remainder of either is a NaN.
RadianFromFloat(value) ==
    IF value.kind = "num" THEN Finite(RadianFrom(value.val)) ELSE NotANumber

\* Distance::km
DistanceKm(km) == PositiveFloatFrom(Finite(km))

\* impl Add for Distance
DistanceAdd(a, rhs) == PositiveFloatFrom(Finite(a + rhs))

\* impl Mul<f64> for Distance
DistanceMul(a, rhs) == PositiveFloatFrom(Finite(a * rhs))

\* impl Div<f64> for Distance
DistanceDiv(a, rhs) == PositiveFloatFrom(Quotient(a, rhs))

\* Distance::abs_diff
DistanceAbsDiff(a, rhs) == PositiveFloatFrom(Finite(a - rhs))

\* impl Add for Radian
RadianAdd(a, rhs) == RadianFromFloat(Finite(a + rhs))

\* impl Sub for Radian
RadianSub(a, rhs) == RadianFromFloat(Finite(a - rhs))

\* impl Mul<f64> for Radian
RadianMul(a, rhs) == RadianFromFloat(Finite(a * rhs))

\* impl Div<f64> for Radian
RadianDiv(a, rhs) == RadianFromFloat(Quotient(a, rhs))

UnitInit ==
    /\ call = NoCall
    /\ ret = NoRet
    /\ shape = NoShape
    /\ system = OrbitalSystem(Sun, None, <<>>)
    /\ derived = NoDerived
    /\ found = NoFound

\* Distance::km(km).as_km()
Km(km) ==
    /\ call' = [op |-> "km", unit |-> "distance", a |-> km, rhs |-> 0]
    /\ ret' = Ok(DistanceKm(km))
    /\ UNCHANGED <<shape, system, derived, found>>

\* a + rhs
DistancePlus(a, rhs) ==
    /\ call' = [op |-> "add", unit |-> "distance", a |-> a, rhs |-> rhs]
    /\ ret' = Ok(DistanceAdd(a, rhs))
    /\ UNCHANGED <<shape, system, derived, found>>

\* a * rhs
DistanceTimes(a, rhs) ==
    /\ call' = [op |-> "mul", unit |-> "distance", a |-> a, rhs |-> rhs]
    /\ ret' = Ok(DistanceMul(a, rhs))
    /\ UNCHANGED <<shape, system, derived, found>>

\* a / rhs, for a quotient that is whole or a division by zero
DistanceOver(a, rhs) ==
    /\ rhs # 0 => Rem(a, rhs) = 0
    /\ call' = [op |-> "div", unit |-> "distance", a |-> a, rhs |-> rhs]
    /\ ret' = Ok(DistanceDiv(a, rhs))
    /\ UNCHANGED <<shape, system, derived, found>>

\* a.abs_diff(rhs)
DistanceApart(a, rhs) ==
    /\ call' = [op |-> "abs_diff", unit |-> "distance", a |-> a, rhs |-> rhs]
    /\ ret' = Ok(DistanceAbsDiff(a, rhs))
    /\ UNCHANGED <<shape, system, derived, found>>

\* a + rhs
RadianPlus(a, rhs) ==
    /\ call' = [op |-> "add", unit |-> "radian", a |-> a, rhs |-> rhs]
    /\ ret' = Ok(RadianAdd(a, rhs))
    /\ UNCHANGED <<shape, system, derived, found>>

\* a - rhs
RadianMinus(a, rhs) ==
    /\ call' = [op |-> "sub", unit |-> "radian", a |-> a, rhs |-> rhs]
    /\ ret' = Ok(RadianSub(a, rhs))
    /\ UNCHANGED <<shape, system, derived, found>>

\* a * rhs
RadianTimes(a, rhs) ==
    /\ call' = [op |-> "mul", unit |-> "radian", a |-> a, rhs |-> rhs]
    /\ ret' = Ok(RadianMul(a, rhs))
    /\ UNCHANGED <<shape, system, derived, found>>

\* a / rhs, for a quotient that is whole or a division by zero
RadianOver(a, rhs) ==
    /\ rhs # 0 => Rem(a, rhs) = 0
    /\ call' = [op |-> "div", unit |-> "radian", a |-> a, rhs |-> rhs]
    /\ ret' = Ok(RadianDiv(a, rhs))
    /\ UNCHANGED <<shape, system, derived, found>>

UnitNext ==
    \/ \E km \in -MaxKm..MaxKm : Km(km)
    \/ \E a \in Distances : \E rhs \in Distances : DistancePlus(a, rhs)
    \/ \E a \in Distances : \E rhs \in Scalars : DistanceTimes(a, rhs)
    \/ \E a \in Distances : \E rhs \in Scalars : DistanceOver(a, rhs)
    \/ \E a \in Distances : \E rhs \in Distances : DistanceApart(a, rhs)
    \/ \E a \in Radians : \E rhs \in Radians : RadianPlus(a, rhs)
    \/ \E a \in Radians : \E rhs \in Radians : RadianMinus(a, rhs)
    \/ \E a \in Radians : \E rhs \in Scalars : RadianTimes(a, rhs)
    \/ \E a \in Radians : \E rhs \in Scalars : RadianOver(a, rhs)

UnitSpec == UnitInit /\ [][UnitNext]_vars

\* C22: unit values keep their invariants through construction and
\* arithmetic: Distance::km(x).as_km() is |x|; the sum, the product and the
\* quotient by any scalar, and the abs_diff of Distances are numbers >= 0;
\* the sum, the difference, the product and the quotient by any scalar of
\* Radians are numbers of [0, 2 pi].
C22_UnitsKeepInvariants ==
    /\ (call.op = "km") => ret.val = Finite(Abs(call.a))
    /\ (call.op \in {"add", "sub", "mul", "div", "abs_diff"}
            /\ call.unit = "distance") =>
           /\ ret.val.kind # "nan"
           /\ ret.val.kind = "num" => ret.val.val >= 0
    /\ (call.op \in {"add", "sub", "mul", "div"} /\ call.unit = "radian") =>
           /\ ret.val.kind = "num"
           /\ 0 <= ret.val.val
           /\ ret.val.val <= TWO_PI

----------------------------------------------------------------------------
(* Transforms applied to points, and undone by their negation.             *)

\* The coordinates of the points and of the translation vectors reach
\* MaxCoord to either side of zero, and the axes MaxAxis in length.
MaxCoord == 1

MaxAxis == 2

Points ==
    {Coords(x, y, z) : x \in -MaxCoord..MaxCoord, y \in -MaxCoord..MaxCoord,
                       z \in -MaxCoord..MaxCoord}

\* The non-zero axes along a coordinate axis, in either direction.
Axes ==
    UNION {{Coords(m, 0, 0), Coords(0, m, 0), Coords(0, 0, m)} :
               m \in (-MaxAxis..MaxAxis) \ {0}}

\* A point and the transform it is about to go through.
Pending(point, kind, transform) ==
    [op |-> "pending", kind |-> kind, point |-> point,
     transform |-> transform]

\* Translation::default().with_vector(vector), Rotation::default()
\* .with_axis(axis).with_theta(theta), and a point for each.
TransformInit ==
    /\ call \in {Pending(point, "translation", Translation(vector)) :
                     point \in Points, vector \in Points}
                 \cup {Pending(point, "rotation", Rotation(axis, theta)) :
                           point \in Points, axis \in Axes, theta \in Radians}
    /\ ret = NoRet
    /\ shape = NoShape
    /\ system = OrbitalSystem(Sun, None, <<>>)
    /\ derived = NoDerived
    /\ found = NoFound

\* translation.transform(point)
TranslateCall ==
    /\ call.op = "pending"
    /\ call.kind = "translation"
    /\ call' = [call EXCEPT !.op = "translate"]
    /\ ret' = Ok(Translate(call.transform, call.point))
    /\ UNCHANGED <<shape, system, derived, found>>

\* (-translation).transform(translated)
TranslateBack ==
    /\ call.op = "translate"
    /\ call' = [call EXCEPT !.op = "translate_back"]
    /\ ret' = Ok(Translate(TranslationNeg(call.transform), ret.val))
    /\ UNCHANGED <<shape, system, derived, found>>

\* rotation.transform(point)
RotateCall ==
    /\ call.op = "pending"
    /\ call.kind = "rotation"
    /\ call' = [call EXCEPT !.op = "rotate"]
    /\ ret' = Ok(Rotate(call.transform, call.point))
    /\ UNCHANGED <<shape, system, derived, found>>

\* (-rotation).transform(rotated)
RotateBack ==
    /\ call.op = "rotate"
    /\ call' = [call EXCEPT !.op = "rotate_back"]
    /\ ret' = Ok(Rotate(RotationNeg(call.transform), ret.val))
    /\ UNCHANGED <<shape, system, derived, found>>

TransformNext ==
    \/ TranslateCall
    \/ TranslateBack
    \/ RotateCall
    \/ RotateBack

TransformSpec == TransformInit /\ [][TransformNext]_vars

\* C23: a transform followed by its negation returns the original point:
\* a translation followed by the translation by the negated vector, and a
\* rotation about a non-zero axis followed by the rotation about the same
\* axis by the negated angle.
C23_NegationUndoesTransform ==
    call.op \in {"translate_back", "rotate_back"} => ret.val = call.point

\* A point off the axis was turned a quarter turn away and turned back.
C23_Witness ==
    /\ call.op = "rotate_back"
    /\ call.transform.theta = 1
    /\ Rotate(call.transform, call.point) # call.point
    /\ ret.val = call.point

\* C24: a rotation follows the right-hand rule about its axis through the
\* origin: (0,1,0) about (1,0,0) goes to (0,0,1) by pi/2 and to (0,-1,0) by
\* pi, and about (0,0,1) to (-1,0,0) by pi/2; a point on the axis stays
\* where it is under every angle; a rotation by 2 pi about any non-zero axis
\* is the identity.
C24_RotationIsRightHanded ==
    call.op = "rotate" =>
        LET axis == call.transform.axis
            theta == call.transform.theta
        IN  /\ (call.point = Coords(0, 1, 0) /\ axis = Coords(1, 0, 0)) =>
                   /\ theta = 1 => ret.val = Coords(0, 0, 1)
                   /\ theta = 2 => ret.val = Coords(0, -1, 0)
            /\ (call.point = Coords(0, 1, 0) /\ axis = Coords(0, 0, 1)
                    /\ theta = 1) =>
                   ret.val = Coords(-1, 0, 0)
            /\ (\E m \in -MaxCoord..MaxCoord :
                    call.point = Coords(m * axis[1], m * axis[2], m * axis[3]))
                   => ret.val = call.point
            /\ theta = TWO_PI => ret.val = call.point

\* (0,1,0) was turned a quarter turn about the x axis, given as a vector of
\* length two, and went to (0,0,1).
C24_Witness ==
    /\ call.op = "rotate"
    /\ call.point = Coords(0, 1, 0)
    /\ call.transform = Rotation(Coords(MaxAxis, 0, 0), 1)
    /\ ret.val = Coords(0, 0, 1)

----------------------------------------------------------------------------
(* Geographic coordinates, in quarter turns: Longitude of globe-rs and the *)
(* GeographicPoint of the first crate.                                     *)

PI == TWO_PI \div 2

FRAC_PI_2 == PI \div 2

\* The angles set reach MaxGeoAngle quarter turns to either side of zero,
\* and the altitudes MaxAltitude.
MaxGeoAngle == 6

MaxAltitude == 1

GeoAngles == -MaxGeoAngle..MaxGeoAngle

\* impl From<f64> for Longitude; rem_euclid is the non-negative remainder.
LongitudeFrom(value) ==
    IF -PI <= value /\ value <= PI
    THEN value
    ELSE ((value + PI) % TWO_PI) - PI

GeographicPoint(longitude, latitude, altitude) ==
    [longitude |-> longitude, latitude |-> latitude, altitude |-> altitude]

\* GeographicPoint::default()
GeographicPointDefault == GeographicPoint(0, 0, 0)

\* GeographicPoint::set_longitude
SetLongitude(point, value) ==
    [point EXCEPT !.longitude =
        IF -PI <= value /\ value < PI
        THEN value
        ELSE ((value + PI) % TWO_PI) - PI]

\* value.cos().is_sign_negative().  The f64 of an odd multiple of pi/2 lies
\* short of it, so its cosine has the sign the cosine has just before it:
\* cos(3 pi/2) is -1.8e-16 and cos(pi/2) is 6.1e-17.
CosIsSignNegative(value) ==
    LET m == Abs(value) % TWO_PI
    IN  FRAC_PI_2 < m /\ m <= 3 * FRAC_PI_2

\* value.sin().asin(): the angle of [-pi/2, pi/2] with the sine of value.
AsinSin(value) ==
    LET m == (value + FRAC_PI_2) % TWO_PI
    IN  IF m <= PI THEN m - FRAC_PI_2 ELSE 3 * FRAC_PI_2 - m

SetLatitudeKeepsLongitude(point, value) ==
    [point EXCEPT !.latitude =
        IF -FRAC_PI_2 <= value /\ value < FRAC_PI_2 THEN value
        ELSE AsinSin(value)]

\* GeographicPoint::set_latitude
SetLatitude(point, value) ==
    IF -FRAC_PI_2 <= value /\ value < FRAC_PI_2
    THEN [point EXCEPT !.latitude = value]
    ELSE LET turned == IF CosIsSignNegative(value)
                       THEN SetLongitude(point, point.longitude + PI)
                       ELSE point
         IN  [turned EXCEPT !.latitude = AsinSin(value)]

\* GeographicPoint::set_altitude
SetAltitude(point, value) == [point EXCEPT !.altitude = value]

\* A default point; ret holds the point as the last call left it.
GeoInit ==
    /\ call = NoCall
    /\ ret = Ok(GeographicPointDefault)
    /\ shape = NoShape
    /\ system = OrbitalSystem(Sun, None, <<>>)
    /\ derived = NoDerived
    /\ found = NoFound

\* point.set_longitude(value)
SetLongitudeCall(value) ==
    /\ call' = [op |-> "set_longitude", point |-> ret.val, value |-> value]
    /\ ret' = Ok(SetLongitude(ret.val, value))
    /\ UNCHANGED <<shape, system, derived, found>>

\* point.set_latitude(value)
SetLatitudeCall(value) ==
    /\ call' = [op |-> "set_latitude", point |-> ret.val, value |-> value]
    /\ ret' = Ok(SetLatitude(ret.val, value))
    /\ UNCHANGED <<shape, system, derived, found>>

\* point.set_altitude(value)
SetAltitudeCall(value) ==
    /\ call' = [op |-> "set_altitude", point |-> ret.val, value |-> value]
    /\ ret' = Ok(SetAltitude(ret.val, value))
    /\ UNCHANGED <<shape, system, derived, found>>

\* Longitude::from(value), which leaves the point alone
LongitudeFromCall(value) ==
    /\ call' = [op |-> "longitude_from", point |-> ret.val, value |-> value]
    /\ derived' = [kind |-> "longitude", time |-> 0,
                   res |-> Ok(LongitudeFrom(value))]
    /\ UNCHANGED <<ret, shape, system, found>>

GeoNext ==
    \/ \E value \in GeoAngles : SetLongitudeCall(value)
    \/ \E value \in GeoAngles : SetLatitudeCall(value)
    \/ \E value \in 0..MaxAltitude : SetAltitudeCall(value)
    \/ \E value \in GeoAngles : LongitudeFromCall(value)

GeoSpec == GeoInit /\ [][GeoNext]_vars

\* value and other are a whole number of turns apart.
TurnsApart(value, other) ==
    \E turns \in -MaxGeoAngle..MaxGeoAngle : value = other + turns * TWO_PI

\* C25: Longitude::from(x) lies in the half-open range [-pi, +pi) and is a
\* whole number of turns away from x; +pi itself comes out as -pi.
C25_LongitudeWithinHalfOpenRange ==
    (call.op = "longitude_from" /\ derived.kind = "longitude") =>
        /\ -PI <= derived.res.val
        /\ derived.res.val < PI
        /\ TurnsApart(derived.res.val, call.value)

\* The poles a latitude passes on its way from 0 to value, value left out.
PolesCrossed(value) ==
    {n \in -MaxGeoAngle..MaxGeoAngle :
        LET pole == FRAC_PI_2 + n * PI
        IN  \/ 0 < pole /\ pole < value
            \/ value < pole /\ pole < 0}

\* C26: set_latitude(v) never changes the altitude; with v in
\* [-pi/2, +pi/2) it sets the latitude to v and leaves the longitude; with v
\* outside it sets the latitude to the angle of [-pi/2, pi/2] that has the
\* sine of v, and moves the longitude by pi, wrapped into [-pi, pi), exactly
\* when v has crossed a pole an odd number of times.
C26_SetLatitudeFolds ==
    call.op = "set_latitude" =>
        LET before == call.point
            after == ret.val
            v == call.value
        IN  /\ after.altitude = before.altitude
            /\ (-FRAC_PI_2 <= v /\ v < FRAC_PI_2) =>
                   /\ after.latitude = v
                   /\ after.longitude = before.longitude
            /\ ~(-FRAC_PI_2 <= v /\ v < FRAC_PI_2) =>
                   /\ -FRAC_PI_2 <= after.latitude
                   /\ after.latitude <= FRAC_PI_2
                   /\ \/ TurnsApart(after.latitude, v)
                      \/ TurnsApart(after.latitude, PI - v)
                   /\ IF Cardinality(PolesCrossed(v)) % 2 = 1
                      THEN /\ TurnsApart(after.longitude,
                                          before.longitude + PI)
                           /\ -PI <= after.longitude
                           /\ after.longitude < PI
                      ELSE after.longitude = before.longitude

\* A point a quarter turn east and one up was given the latitude pi: it is
\* on the equator a quarter turn west, as high as before.
C26_Witness ==
    /\ call.op = "set_latitude"
    /\ call.value = PI
    /\ call.point = GeographicPoint(FRAC_PI_2, 0, MaxAltitude)
    /\ ret.val = GeographicPoint(-FRAC_PI_2, 0, MaxAltitude)

----------------------------------------------------------------------------
(* OrbitalSystemStateGenerator: the iterator over the states of a system.  *)

\* The steps reach MaxStep ticks, and next() is called up to MaxCalls times.
MaxStep == 2

MaxCalls == 3

\* OrbitalSystemStateGenerator::from(system).with_step(step); `calls` counts
\* the calls to next() made so far and is not a field of the generator.
Generator(step) == [op |-> "generator", step |-> step, time |-> 0, calls |-> 0]

GeneratorNextAdvancesFirst(generator, sys) ==
    LET state == StateAtOf(sys, generator.time + generator.step)
    IN  IF ~state.ok
        THEN Panic
        ELSE Ok([generator |-> [generator EXCEPT
                                   !.op = "next",
                                   !.time = generator.time + generator.step,
                                   !.calls = generator.calls + 1],
                 item |-> Some(state.val)])

\* Iterator::next of the generator: the generator it leaves and the item it
\* returns, or the panic of state_at.
GeneratorNext(generator, sys) ==
    LET state == StateAtOf(sys, generator.time)
    IN  IF ~state.ok
        THEN Panic
        ELSE Ok([generator |-> [generator EXCEPT
                                   !.op = "next",
                                   !.time = generator.time + generator.step,
                                   !.calls = generator.calls + 1],
                 item |-> Some(state.val)])

GeneratorInit ==
    /\ system \in Systems
    /\ call \in {Generator(step) : step \in 1..MaxStep}
    /\ ret = NoRet
    /\ shape = NoShape
    /\ derived = NoDerived
    /\ found = NoFound

\* generator.next(), which returns an item
NextItem ==
    /\ call.op \in {"generator", "next"}
    /\ call.calls < MaxCalls
    /\ GeneratorNext(call, system).ok
    /\ call' = GeneratorNext(call, system).val.generator
    /\ ret' = GeneratorNext(call, system).val.item
    /\ UNCHANGED <<system, shape, derived, found>>

\* generator.next(), which panics in state_at
NextPanics ==
    /\ call.op \in {"generator", "next"}
    /\ call.calls < MaxCalls
    /\ ~GeneratorNext(call, system).ok
    /\ call' = [call EXCEPT !.op = "panicked"]
    /\ ret' = Panic
    /\ UNCHANGED <<system, shape, derived, found>>

GeneratorStep ==
    \/ NextItem
    \/ NextPanics

GeneratorSpec == GeneratorInit /\ [][GeneratorStep]_vars

\* C27: the k-th call to next() (k = 0, 1, 2, ...) of a generator whose step
\* is fixed returns Some(state_at(k * step)): the first item is the state at
\* time 0, the time goes up by one step a call, and the item is never None.
C27_NextYieldsStateAtEachStep ==
    call.op = "next" =>
        LET k == call.calls - 1
            state == At(k * call.step, system, None)
        IN  /\ ret.some
            /\ state.ok
            /\ ret.val = state.val
            /\ call.time = call.calls * call.step

\* The third call returned the state of a planet in orbit at two steps of a
\* second, which is not its state at time 0.
C27_Witness ==
    /\ call.op = "next"
    /\ call.calls = 3
    /\ call.step = TicksPerSec
    /\ ret.some
    /\ Len(system.secondary) > 0
    /\ At(0, system, None).ok
    /\ ret.val # At(0, system, None).val

\* C28: in a state, a node that is not the root and has no orbit is at the
\* absolute position of its parent, so that its own children are placed
\* about that position.
C28_NoOrbitStaysWithParent ==
    HasState =>
        \A path \in PathsOf(system) \ {<<>>} :
            ~NodeAt(system, path).orbit.some =>
                NodeAt(derived.res.val, path).position
                    = NodeAt(derived.res.val, Parent(path)).position

\* The sum of the distances from the start point to the two foci.
FocalSum(e) == Distance(e.start, e.foci[1]) + Distance(e.start, e.foci[2])

\* C29: with the foci fixed, semi_major_axis(), semi_minor_axis() and
\* eccentricity() do not depend on the point of the ellipse kept as start:
\* two start points with the same sum of distances to the foci give the same
\* three values, and b^2 = a^2 - c^2 with c = linear_eccentricity().
C29_AxesIndependentOfStart ==
    (call.op = "axes" /\ ret.ok) =>
        /\ ret.val.semi_minor_axis * ret.val.semi_minor_axis
               = ret.val.semi_major_axis * ret.val.semi_major_axis
                     - ret.val.linear_eccentricity
                           * ret.val.linear_eccentricity
        /\ \A other \in Ellipses :
               (/\ other.val.foci = shape.val.foci
                /\ FocalSum(other.val) = FocalSum(shape.val)) =>
                   /\ EllipseSemiMajorAxis(other.val)
                          = ret.val.semi_major_axis
                   /\ EllipseSemiMinorAxis(other.val)
                          = ret.val.semi_minor_axis
                   /\ EllipseEccentricity(other.val) = ret.val.eccentricity

----------------------------------------------------------------------------
(* The simulation clock.  Each frame the wall clock moves on, some keys are *)
(* found just pressed, and the systems Clock::update and                    *)
(* Clock::on_user_input_event run once each, in an order the schedule does  *)
(* not fix.  Wall time and elapsed time are counted in ticks.               *)

SECS_PER_HOUR == 3600

\* The wall clock runs up to MaxWall ticks and moves on by up to MaxDelta a
\* frame; the scale is raised up to MaxClockScale.
MaxWall == 4

MaxDelta == 2

MaxClockScale == 4

KeyCodes == {"Space", "ArrowUp", "ArrowDown", "KeyR"}

Clock(elapsed_time, started_at, scale) ==
    [elapsed_time |-> elapsed_time, started_at |-> started_at,
     scale |-> scale]

\* impl Default for Clock
ClockDefault == Clock(0, None, 1)

ClockUpdateKeepsStart(clock, elapsed) ==
    IF clock.started_at.some
    THEN LET scale == clock.scale * SECS_PER_HOUR
             elapsed_time ==
                 clock.elapsed_time
                     + Abs(elapsed - clock.started_at.val) * scale
         IN  [clock |-> [clock EXCEPT !.elapsed_time = elapsed_time],
              tick |-> Some(elapsed_time)]
    ELSE [clock |-> clock, tick |-> None]

\* Clock::update at the wall time `elapsed`: the clock it leaves and the
\* tick it sends, if any.  The scale stays below the saturation of u32.
ClockUpdate(clock, elapsed) ==
    IF clock.started_at.some
    THEN LET scale == clock.scale * SECS_PER_HOUR
             elapsed_time ==
                 clock.elapsed_time
                     + Abs(elapsed - clock.started_at.val) * scale
         IN  [clock |-> [clock EXCEPT !.elapsed_time = elapsed_time,
                                      !.started_at = Some(elapsed)],
              tick |-> Some(elapsed_time)]
    ELSE [clock |-> clock, tick |-> None]

\* Clock::on_user_input_event with the keys just pressed, at the wall time
\* `elapsed`.
ClockOnUserInputEvent(clock, keys, elapsed) ==
    IF "Space" \in keys
    THEN IF clock.started_at.some
         THEN [clock EXCEPT !.started_at = None]
         ELSE [clock EXCEPT !.started_at = Some(elapsed)]
    ELSE IF "ArrowUp" \in keys
    THEN [clock EXCEPT !.scale = clock.scale * 2]
    ELSE IF "ArrowDown" \in keys
    THEN [clock EXCEPT !.scale = IF clock.scale \div 2 > 1
                                 THEN clock.scale \div 2 ELSE 1]
    ELSE IF "KeyR" \in keys
    THEN [clock EXCEPT !.elapsed_time = 0]
    ELSE clock

\* The default clock before the first frame.  `before` is the clock as the
\* last system to run found it and `tick` the tick that system sent;
\* `running` is the wall time gone by while the clock was running, and
\* `counted` the wall time that update has added to the elapsed time.
ClockInit ==
    /\ call = [op |-> "startup", now |-> 0, keys |-> {}, pending |-> {},
               before |-> ClockDefault, tick |-> None, running |-> 0,
               counted |-> 0]
    /\ ret = Ok(ClockDefault)
    /\ shape = NoShape
    /\ system = OrbitalSystem(Sun, None, <<>>)
    /\ derived = NoDerived
    /\ found = NoFound

\* A frame begins: the wall clock has moved on by delta and keys are found
\* just pressed; both systems are to run.
Frame(delta, keys) ==
    /\ call.pending = {}
    /\ call.now + delta <= MaxWall
    /\ "ArrowUp" \in keys => ret.val.scale * 2 <= MaxClockScale
    /\ call' = [call EXCEPT !.op = "frame",
                            !.now = call.now + delta,
                            !.keys = keys,
                            !.pending = {"update", "input"},
                            !.before = ret.val,
                            !.tick = None,
                            !.running =
                                IF ret.val.started_at.some
                                THEN call.running + delta
                                ELSE call.running]
    /\ UNCHANGED <<ret, shape, system, derived, found>>

\* The schedule runs Clock::update.
Update ==
    /\ "update" \in call.pending
    /\ LET done == ClockUpdate(ret.val, call.now)
       IN  /\ ret' = Ok(done.clock)
           /\ call' = [call EXCEPT
                           !.op = "update",
                           !.pending = call.pending \ {"update"},
                           !.before = ret.val,
                           !.tick = done.tick,
                           !.counted =
                               IF ret.val.started_at.some
                               THEN call.counted
                                        + Abs(call.now
                                                  - ret.val.started_at.val)
                               ELSE call.counted]
    /\ UNCHANGED <<shape, system, derived, found>>

\* The schedule runs Clock::on_user_input_event.
OnUserInputEvent ==
    /\ "input" \in call.pending
    /\ ret' = Ok(ClockOnUserInputEvent(ret.val, call.keys, call.now))
    /\ call' = [call EXCEPT !.op = "input",
                            !.pending = call.pending \ {"input"},
                            !.before = ret.val,
                            !.tick = None]
    /\ UNCHANGED <<shape, system, derived, found>>

ClockNext ==
    \/ \E delta \in 1..MaxDelta : \E keys \in SUBSET KeyCodes :
           Frame(delta, keys)
    \/ Update
    \/ OnUserInputEvent

ClockSpec == ClockInit /\ [][ClockNext]_vars

\* A system has just run.
SystemRan == call.op \in {"update", "input"}

\* The system that has just run saw a press of Space.
SpacePressed == call.op = "input" /\ "Space" \in call.keys

\* The system that has just run saw a press of R and of no key that comes
\* before it.
ResetPressed == call.op = "input" /\ call.keys = {"KeyR"}

\* Space, and Space alone, turns a paused clock into a running one and back;
\* and update has counted no more wall time than the clock was running for.
TogglesAndCountsRunningTime ==
    /\ ret.val.started_at.some # call.before.started_at.some <=> SpacePressed
    /\ call.counted <= call.running

\* C30: whatever the frames and the keys pressed, and whichever of update
\* and the input system runs first in a frame: a system that finds the clock
\* paused sends no tick and leaves elapsed_time as it is, unless it is the
\* input system on a press of R alone, which sets it to zero; each press of
\* Space toggles between paused and running; and the wall time spent paused
\* is never added to elapsed_time.
C30_PausedClockStandsUnlessReset ==
    SystemRan =>
        /\ ~call.before.started_at.some =>
               /\ ~call.tick.some
               /\ \/ ret.val.elapsed_time = call.before.elapsed_time
                  \/ ResetPressed /\ ret.val.elapsed_time = 0
        /\ TogglesAndCountsRunningTime

\* C30 as stated: a system that finds the clock paused sends no tick and
\* leaves elapsed_time as it is; each press of Space toggles between paused
\* and running; the wall time spent paused is never added to elapsed_time.
C30_PausedClockStands ==
    SystemRan =>
        /\ ~call.before.started_at.some =>
               /\ ~call.tick.some
               /\ ret.val.elapsed_time = call.before.elapsed_time
        /\ TogglesAndCountsRunningTime

\* The clock ran, was paused for a while, and runs again: update adds to an
\* elapsed time that holds less wall time than has gone by since the clock
\* was first started.
C30_Witness ==
    /\ call.op = "update"
    /\ call.before.started_at.some
    /\ call.tick.some
    /\ ret.val.elapsed_time > call.before.elapsed_time
    /\ call.before.elapsed_time > 0
    /\ call.running = call.counted
    /\ call.running + 1 < call.now

====
